---------------------------- MODULE Spec2Model ----------------------------
(***************************************************************************)
(* Rocket engine health index demo: synthetic telemetry generator          *)
(* (generate_telemetry.py), rolling-window feature extraction              *)
(* (preprocessing.py) and the training driver (train_health_index.py).     *)
(*                                                                         *)
(* Four specifications share the module:                                   *)
(*   SpecTime   generate_time_series on IEEE-754 doubles                   *)
(*   SpecFault  normal_behavior / faulty_behavior on one time axis         *)
(*   SpecFeat   feature_engineering on one run, any window                 *)
(*   Spec       the data directory, generate_and_save_runs and main        *)
(***************************************************************************)
EXTENDS Integers, Sequences, FiniteSets, TLC

VARIABLES
    pc,         \* position in the function under study ("idle" between runs)
    arg,        \* its arguments
    ret,        \* its result
    disk,       \* the data/ directory: [exists, names (creation order), files]
    run,        \* the last execution of main: its locals and its event trace
    nTrain,     \* number of executions of main so far
    nGen        \* number of executions of generate_and_save_runs so far

vars == <<pc, arg, ret, disk, run, nTrain, nGen>>

(***************************************************************************)
(* IEEE-754 binary64 arithmetic, exact.  A mantissa is a natural number    *)
(* below 2^70 held in five limbs of 14 bits, least significant first; a    *)
(* nonzero double is [m, e] with 2^52 <= m < 2^53 and value m * 2^e.       *)
(***************************************************************************)
LimbBase == 16384
NLimbs == 5
MantBits == 53

\* F(x) with x evaluated once, before F
With(x, F(_)) == CHOOSE y \in {F(v) : v \in {x}} : TRUE

\* the sequence s with its length and its elements evaluated once
Evaluated(s) == s \o <<>>

BigZero == [i \in 1..NLimbs |-> 0]

BigOfInt(k) ==
    [i \in 1..NLimbs |->
        CASE i = 1 -> k % LimbBase
          [] i = 2 -> (k \div LimbBase) % LimbBase
          [] i = 3 -> k \div (LimbBase * LimbBase)
          [] OTHER -> 0]

\* the value of a mantissa that fits three limbs
BigToInt(a) == a[1] + LimbBase * a[2] + LimbBase * LimbBase * a[3]

BigIsZero(a) == \A i \in 1..NLimbs : a[i] = 0

BigOdd(a) == a[1] % 2 = 1

RECURSIVE BigLessFrom(_, _, _)
BigLessFrom(a, b, i) ==
    IF i = 0 THEN FALSE
    ELSE IF a[i] # b[i] THEN a[i] < b[i]
    ELSE BigLessFrom(a, b, i - 1)

BigLess(a, b) == BigLessFrom(a, b, NLimbs)

RECURSIVE BigMulFrom(_, _, _, _)
BigMulFrom(a, k, i, carry) ==
    IF i > NLimbs THEN <<>>
    ELSE LET p == a[i] * k + carry
         IN  <<p % LimbBase>> \o BigMulFrom(a, k, i + 1, p \div LimbBase)

\* a * k for a small natural k (k <= 2^16)
BigMulSmall(a, k) == BigMulFrom(a, k, 1, 0)

RECURSIVE BigAddFrom(_, _, _)
BigAddFrom(a, i, carry) ==
    IF i > NLimbs THEN <<>>
    ELSE LET p == a[i] + carry
         IN  <<p % LimbBase>> \o BigAddFrom(a, i + 1, p \div LimbBase)

BigAddSmall(a, k) == BigAddFrom(a, 1, k)

RECURSIVE BigSubFrom(_, _, _, _)
BigSubFrom(a, b, i, borrow) ==
    IF i > NLimbs THEN <<>>
    ELSE LET d == a[i] - b[i] - borrow
         IN  IF d < 0 THEN <<d + LimbBase>> \o BigSubFrom(a, b, i + 1, 1)
             ELSE <<d>> \o BigSubFrom(a, b, i + 1, 0)

\* a - b for a >= b
BigSub(a, b) == BigSubFrom(a, b, 1, 0)

BigDouble(a) == BigMulSmall(a, 2)

BigHalf(a) ==
    [i \in 1..NLimbs |->
        (a[i] \div 2)
        + (IF i < NLimbs THEN (a[i + 1] % 2) * (LimbBase \div 2) ELSE 0)]

\* a * 2^14 and a \div 2^14: one limb up, one limb down
BigLimbUp(a) == [i \in 1..NLimbs |-> IF i = 1 THEN 0 ELSE a[i - 1]]
BigLimbDown(a) == [i \in 1..NLimbs |-> IF i = NLimbs THEN 0 ELSE a[i + 1]]

RECURSIVE BigPow2(_)
BigPow2(n) ==
    IF n = 0 THEN BigOfInt(1)
    ELSE IF n >= 14 THEN BigLimbUp(BigPow2(n - 14))
    ELSE BigDouble(BigPow2(n - 1))

MantMin == BigPow2(MantBits - 1)    \* 2^52
MantTop == BigPow2(MantBits)        \* 2^53

FZero == [m |-> BigZero, e |-> 0]

FIsZero(x) == BigIsZero(x.m)

\* round to nearest, ties to even: m is the 53-bit mantissa, g the first
\* discarded bit, s whether any later discarded bit is set
FRound(m, e, g, s) ==
    IF g /\ (s \/ BigOdd(m))
    THEN LET m1 == BigAddSmall(m, 1)
         IN  IF BigLess(m1, MantTop) THEN [m |-> m1, e |-> e]
             ELSE [m |-> MantMin, e |-> e + 1]
    ELSE [m |-> m, e |-> e]

RECURSIVE FShiftDown(_, _, _, _)
FShiftDown(m, e, g, s) ==
    IF BigLess(m, MantTop) THEN FRound(m, e, g, s)
    ELSE FShiftDown(BigHalf(m), e + 1, BigOdd(m), s \/ g)

RECURSIVE FShiftUp(_, _)
FShiftUp(m, e) ==
    IF BigLess(BigLimbUp(m), MantTop) /\ m[NLimbs] = 0
    THEN FShiftUp(BigLimbUp(m), e - 14)
    ELSE IF BigLess(m, MantMin) THEN FShiftUp(BigDouble(m), e - 1)
    ELSE [m |-> m, e |-> e]

\* the double nearest to m * 2^e, for a natural m < 2^70
FNormal(m, e) ==
    IF BigIsZero(m) THEN FZero
    ELSE IF BigLess(m, MantMin) THEN FShiftUp(m, e)
    ELSE FShiftDown(m, e, FALSE, FALSE)

\* int -> double (exact below 2^31)
FFromInt(k) == FNormal(BigOfInt(k), 0)

\* double(k) * x, rounded once
FMulInt(k, x) ==
    IF k = 0 \/ FIsZero(x) THEN FZero ELSE FNormal(BigMulSmall(x.m, k), x.e)

\* one step of binary long division of s.r by d (s.r < 2d)
FDivStep(s, d) ==
    LET bit == ~BigLess(s.r, d)
        r1  == IF bit THEN BigSub(s.r, d) ELSE s.r
    IN  [q |-> BigAddSmall(BigDouble(s.q), IF bit THEN 1 ELSE 0),
         r |-> BigDouble(r1)]

RECURSIVE FDivChunk(_, _, _)
FDivChunk(s, d, n) ==
    IF n = 0 THEN s
    ELSE With(FDivStep(s, d), LAMBDA s1 : FDivChunk(s1, d, n - 1))

RECURSIVE FDivBits(_, _, _)
\* n quotient bits of s.r / d, eight at a time
FDivBits(s, d, n) ==
    IF n <= 8 THEN FDivChunk(s, d, n)
    ELSE With(FDivChunk(s, d, 8), LAMBDA s1 : FDivBits(s1, d, n - 8))

\* x / y for nonzero doubles, correctly rounded
FDiv(x, y) ==
    LET lt == BigLess(x.m, y.m)
        r0 == IF lt THEN BigDouble(x.m) ELSE x.m
        e0 == x.e - y.e - (IF lt THEN 1 ELSE 0) - (MantBits - 1)
    IN  With(FDivBits([q |-> BigZero, r |-> r0], y.m, MantBits),
             LAMBDA qr :
                 LET g  == ~BigLess(qr.r, y.m)
                     r1 == IF g THEN BigSub(qr.r, y.m) ELSE qr.r
                 IN  FRound(qr.q, e0, g, ~BigIsZero(r1)))

FLess(x, y) ==
    IF FIsZero(y) THEN FALSE
    ELSE IF FIsZero(x) THEN TRUE
    ELSE x.e < y.e \/ (x.e = y.e /\ BigLess(x.m, y.m))

RECURSIVE FCeilFrom(_, _, _)
FCeilFrom(m, e, sticky) ==
    IF e >= 0 \/ BigIsZero(m)
    THEN BigToInt(m) + (IF sticky THEN 1 ELSE 0)
    ELSE IF e <= -14 THEN FCeilFrom(BigLimbDown(m), e + 14, sticky \/ m[1] # 0)
    ELSE FCeilFrom(BigHalf(m), e + 1, sticky \/ BigOdd(m))

\* ceil of a nonnegative double below 2^31, as an integer
FCeil(x) == FCeilFrom(x.m, x.e, FALSE)

RECURSIVE FRoundIntFrom(_, _, _, _)
FRoundIntFrom(m, e, g, s) ==
    IF e >= 0 \/ (BigIsZero(m) /\ ~g)
    THEN LET k == BigToInt(m)
         IN  IF g /\ (s \/ k % 2 = 1) THEN k + 1 ELSE k
    ELSE IF e <= -15
    THEN FRoundIntFrom(BigLimbDown(m), e + 14, FALSE, s \/ g \/ m[1] # 0)
    ELSE FRoundIntFrom(BigHalf(m), e + 1, BigOdd(m), s \/ g)

\* the integer nearest to a nonnegative double
FRoundInt(x) == FRoundIntFrom(x.m, x.e, FALSE, FALSE)

FOne == FFromInt(1)

(***************************************************************************)
(* generate_telemetry.generate_time_series                                 *)
(*     t = np.arange(0.0, run_duration, 1.0 / fs)                          *)
(* numpy: length = ceil((stop - start) / delta), t[i] = start + i * delta. *)
(***************************************************************************)
ArangeStep(fs) == FDiv(FOne, fs)

generate_time_series(run_duration, fs) ==
    With(ArangeStep(fs),
         LAMBDA delta :
             With(FCeil(FDiv(FFromInt(run_duration), delta)),
                  LAMBDA n : Evaluated([i \in 1..n |-> FMulInt(i - 1, delta)])))

(***************************************************************************)
(* Cell values.  A cell of a data frame is NaN (pandas' missing value,     *)
(* <<>>) or Some(v) = <<v>>.  A channel value v is an integer number of    *)
(* hundredths (Pc = 5000 is 50.0), a time value is a double, a label is a  *)
(* string.  np.tanh and np.sin are evaluated by rational approximations    *)
(* that keep their sign, their zero, their bounds and their monotonicity.  *)
(***************************************************************************)
NaN == <<>>

Some(v) == <<v>>

Val(x) == x[1]

Abs(n) == IF n < 0 THEN -n ELSE n

\* n / d rounded to the nearest integer, halves away from zero (d > 0)
RoundDiv(n, d) ==
    IF n >= 0 THEN (2 * n + d) \div (2 * d) ELSE -((2 * (-n) + d) \div (2 * d))

\* float addition: NaN is absorbing
Add(a, b) == IF a = NaN \/ b = NaN THEN NaN ELSE Some(Val(a) + Val(b))

\* hundredths of a second of a double time stamp
Centi(x) == FRoundInt(FMulInt(100, x))

\* 100 * tanh(xc / 100): Pade (3,2) on |x| <= 3, saturated beyond
TanhC(xc) ==
    IF xc >= 300 THEN 100
    ELSE IF xc <= -300 THEN -100
    ELSE RoundDiv(xc * (270000 + xc * xc), 270000 + 9 * xc * xc)

\* 100 * tanh((t - centre) / tau) for t in hundredths of a second
TanhRamp(tc, centre, tau) == TanhC(RoundDiv(tc - 100 * centre, tau))

\* 100 * sin(xc / 100) on [0, pi]: Bhaskara's approximation, pi = 3.14
SinHalf(xc) ==
    RoundDiv(1600 * xc * (314 - xc), 5 * 314 * 314 - 4 * xc * (314 - xc))

\* 100 * sin(xc / 100) for xc >= 0
SinC(xc) ==
    LET r == xc % 628
    IN  IF r <= 314 THEN SinHalf(r) ELSE -SinHalf(r - 314)

(***************************************************************************)
(* np.random.normal: the process-wide random stream.  A draw is one of     *)
(* -1, 0, +1 standard deviations, fixed by the state of the stream (seed), *)
(* the position of the call in the function (k) and the sample (i).        *)
(***************************************************************************)
Normal(seed, k, i) == ((seed * 5 + k * 3 + i * 7 + seed * i) % 3) - 1

CHANNELS ==
    <<"Pc", "N_pump", "T_in", "Vib", "fuel_flow", "bearing_temp", "thrust">>

ChannelSet == {CHANNELS[c] : c \in 1..Len(CHANNELS)}

(***************************************************************************)
(* generate_telemetry.normal_behavior: one nominal run on the time axis t. *)
(***************************************************************************)
NominalRow(t, seed, i) ==
    LET tc == Centi(t[i])
        Pc == 5000 + 30 * TanhRamp(tc, 30, 10) - 30 * TanhRamp(tc, 270, 10)
              + 50 * Normal(seed, 1, i)
        N_pump == 300000 + 1500 * TanhRamp(tc, 30, 15)
                  - 1500 * TanhRamp(tc, 270, 15) + 2000 * Normal(seed, 2, i)
        T_in == 30000 + 20 * SinC(RoundDiv(tc, 50)) + 100 * Normal(seed, 3, i)
        Vib == 30 + 5 * Normal(seed, 4, i)
        fuel_flow == 10000 + 5 * TanhRamp(tc, 40, 20) + 50 * Normal(seed, 5, i)
        bearing_temp == 8000 + 5 * TanhRamp(tc, 60, 40) + 50 * Normal(seed, 6, i)
        thrust == RoundDiv(8 * Pc + 2 * fuel_flow, 10) + 100 * Normal(seed, 7, i)
    IN  [time |-> Some(t[i]), Pc |-> Some(Pc), N_pump |-> Some(N_pump),
         T_in |-> Some(T_in), Vib |-> Some(Vib), fuel_flow |-> Some(fuel_flow),
         bearing_temp |-> Some(bearing_temp), thrust |-> Some(thrust),
         label |-> Some("normal")]

normal_behavior(t, seed) ==
    Evaluated([i \in 1..Len(t) |-> NominalRow(t, seed, i)])

(***************************************************************************)
(* generate_telemetry.faulty_behavior: the six fault branches, each on the *)
(* nominal frame df, then the label.                                       *)
(***************************************************************************)
FaultTypes ==
    {"pressure_decay", "turbopump_overspeed", "temp_rise",
     "vibration_increase", "fuel_leak", "bearing_overheat"}

\* t.max() of a nonempty axis
RECURSIVE FMaxFrom(_, _, _)
FMaxFrom(t, i, best) ==
    IF i > Len(t) THEN best
    ELSE FMaxFrom(t, i + 1, IF FLess(best, t[i]) THEN t[i] ELSE best)

TMax(t) == FMaxFrom(t, 2, t[1])

\* the decay without its factor 0.1: -(t / t.max()) * 30 in hundredths
DecayUnscaled(ti, tmax) ==
    IF FIsZero(tmax) THEN NaN
    ELSE IF FIsZero(ti) THEN Some(0)
    ELSE Some(-FRoundInt(FMulInt(3000, FDiv(ti, tmax))))

\* decay * 30 = -0.1 * (t / t.max()) * 30 in hundredths; 0/0 is NaN
DecayTimes30(ti, tmax) ==
    IF FIsZero(tmax) THEN NaN
    ELSE IF FIsZero(ti) THEN Some(0)
    ELSE Some(-FRoundInt(FMulInt(300, FDiv(ti, tmax))))

PressureDecay(df, t) ==
    With(TMax(t),
         LAMBDA tmax :
             [i \in 1..Len(df) |->
                 With(DecayTimes30(t[i], tmax),
                      LAMBDA decay30 : [df[i] EXCEPT !.Pc = Add(@, decay30)])])

\* the overspeed term added at every sample, without np.where(t > 150, ...)
TurbopumpOverspeedUngated(df, t) ==
    [i \in 1..Len(df) |->
        [df[i] EXCEPT !.N_pump =
            Add(@, Some(2000 * TanhRamp(Centi(t[i]), 150, 10)))]]

\* overspeed = N_pump + 2000 * tanh((t - 150) / 10), taken where t > 150
TurbopumpOverspeed(df, t) ==
    [i \in 1..Len(df) |->
        LET overspeed ==
                Add(df[i].N_pump, Some(2000 * TanhRamp(Centi(t[i]), 150, 10)))
        IN  [df[i] EXCEPT !.N_pump =
                IF FLess(FFromInt(150), t[i]) THEN overspeed ELSE @]]

TempRise(df, t) ==
    [i \in 1..Len(df) |->
        [df[i] EXCEPT !.T_in =
            Add(@, Some(100 * TanhRamp(Centi(t[i]), 200, 10)))]]

VibrationIncrease(df, t, seed) ==
    [i \in 1..Len(df) |->
        LET increase == RoundDiv(15 * TanhRamp(Centi(t[i]), 180, 10), 10)
        IN  [df[i] EXCEPT !.Vib =
                Add(@, Some(increase + 10 * Normal(seed, 8, i)))]]

FuelLeak(df, t) ==
    [i \in 1..Len(df) |->
        LET leak == 10 * TanhRamp(Centi(t[i]), 160, 15)
        IN  [df[i] EXCEPT !.fuel_flow = Add(@, Some(leak)),
                          !.Pc = Add(@, Some(-RoundDiv(4 * leak, 10))),
                          !.thrust = Add(@, Some(-RoundDiv(6 * leak, 10)))]]

BearingOverheat(df, t) ==
    [i \in 1..Len(df) |->
        LET ramp == TanhRamp(Centi(t[i]), 170, 10)
        IN  [df[i] EXCEPT !.bearing_temp = Add(@, Some(40 * ramp)),
                          !.Vib = Add(@, Some(RoundDiv(5 * ramp, 10)))]]

\* the if / elif chain: an unmatched fault_type falls through
InjectFault(df, t, fault_type, seed) ==
    CASE fault_type = "pressure_decay"      -> PressureDecay(df, t)
      [] fault_type = "turbopump_overspeed" -> TurbopumpOverspeed(df, t)
      [] fault_type = "temp_rise"           -> TempRise(df, t)
      [] fault_type = "vibration_increase"  -> VibrationIncrease(df, t, seed)
      [] fault_type = "fuel_leak"           -> FuelLeak(df, t)
      [] fault_type = "bearing_overheat"    -> BearingOverheat(df, t)
      [] OTHER                              -> df

SetLabel(df, label) ==
    Evaluated([i \in 1..Len(df) |-> [df[i] EXCEPT !.label = Some(label)]])

faulty_behavior(t, fault_type, seed) ==
    With(normal_behavior(t, seed),
         LAMBDA df :
             With(InjectFault(df, t, fault_type, seed),
                  LAMBDA faulty : SetLabel(faulty, fault_type)))

(***************************************************************************)
(* Data frames.  A frame is [cols, rows]: the set of column names and the  *)
(* sequence of rows, each a function from cols to cells.  The index is the *)
(* position in rows.                                                       *)
(***************************************************************************)
RunColumns == {"time", "label"} \cup ChannelSet

Frame(cols, rows) == [cols |-> cols, rows |-> rows]

\* DataFrame.to_csv(index=False): the header line, then one line per row
ToCsv(df, header) ==
    [header |-> header,
     lines |-> Evaluated([i \in 1..Len(df.rows) |->
                   Evaluated([c \in 1..Len(header) |->
                                 df.rows[i][header[c]]])])]

\* pd.read_csv: the columns named by the header, an empty field read as NaN
ReadCsv(file) ==
    LET cols == {file.header[c] : c \in 1..Len(file.header)}
        At(name) == CHOOSE c \in 1..Len(file.header) : file.header[c] = name
    IN  Frame(cols,
              [i \in 1..Len(file.lines) |->
                  [name \in cols |-> file.lines[i][At(name)]]])

\* a row on the columns cols, NaN where the row has no such column
Reindex(row, cols) ==
    [c \in cols |-> IF c \in DOMAIN row THEN row[c] ELSE NaN]

RECURSIVE ConcatRows(_, _, _, _)
\* the rows of dfs[1..k] after acc, reindexed on cols
ConcatRows(dfs, cols, k, acc) ==
    IF k > Len(dfs) THEN acc
    ELSE With(acc \o [i \in 1..Len(dfs[k].rows) |->
                         Reindex(dfs[k].rows[i], cols)],
              LAMBDA acc1 : ConcatRows(dfs, cols, k + 1, acc1))

\* pd.concat(dfs, ignore_index=True): the union of the columns
Concat(dfs) ==
    With(UNION {dfs[k].cols : k \in 1..Len(dfs)},
         LAMBDA cols : Frame(cols, ConcatRows(dfs, cols, 1, <<>>)))

(***************************************************************************)
(* preprocessing.feature_engineering                                       *)
(* Series.rolling(window): min_periods = window, so the statistic at row i *)
(* is NaN unless rows i-window+1 .. i exist and none is NaN; std has       *)
(* ddof = 1 and is NaN on fewer than two observations.                     *)
(***************************************************************************)
RECURSIVE ISqrtBetween(_, _, _)
ISqrtBetween(n, lo, hi) ==
    IF lo >= hi THEN lo
    ELSE LET mid == (lo + hi + 1) \div 2
         IN  IF mid * mid <= n THEN ISqrtBetween(n, mid, hi)
             ELSE ISqrtBetween(n, lo, mid - 1)

\* floor of the square root
ISqrt(n) == ISqrtBetween(n, 0, IF n < 46340 THEN n ELSE 46340)

\* the rows of the window ending at row i
WindowOf(i, window) == (i - window + 1)..i

WindowFull(x, i, window) ==
    /\ i - window + 1 >= 1
    /\ \A j \in WindowOf(i, window) : x[j] # NaN

RECURSIVE SumOver(_, _, _)
SumOver(x, lo, hi) ==
    IF lo > hi THEN 0 ELSE Val(x[lo]) + SumOver(x, lo + 1, hi)

RECURSIVE SumSqDev(_, _, _, _, _, _)
\* sum of ((window * x[j] - total) / (window * unit))^2: squared deviations
\* from the mean in a unit that keeps them within range
SumSqDev(x, lo, hi, total, window, unit) ==
    IF lo > hi THEN 0
    ELSE LET dev == RoundDiv(window * Val(x[lo]) - total, window * unit)
         IN  dev * dev + SumSqDev(x, lo + 1, hi, total, window, unit)

RECURSIVE SpreadOver(_, _, _, _, _)
\* max - min over the window
SpreadOver(x, lo, hi, mn, mx) ==
    IF lo > hi THEN mx - mn
    ELSE LET v == Val(x[lo])
         IN  SpreadOver(x, lo + 1, hi, IF v < mn THEN v ELSE mn,
                        IF v > mx THEN v ELSE mx)

DevUnit(spread) ==
    IF spread <= 10000 THEN 1 ELSE IF spread <= 100000 THEN 10 ELSE 100

\* Series.rolling(window).mean() at row i
RollingMean(x, i, window) ==
    IF ~WindowFull(x, i, window) THEN NaN
    ELSE Some(RoundDiv(SumOver(x, i - window + 1, i), window))

\* Series.rolling(window).std() at row i
RollingStd(x, i, window) ==
    IF ~WindowFull(x, i, window) \/ window < 2 THEN NaN
    ELSE LET lo    == i - window + 1
             total == SumOver(x, lo, i)
             unit  == DevUnit(SpreadOver(x, lo, i, Val(x[lo]), Val(x[lo])))
         IN  Some(unit * ISqrt(RoundDiv(
                 SumSqDev(x, lo, i, total, window, unit), window - 1)))

FeatureColumns == ChannelSet \X {"mean", "std"}

Column(df, name) == [i \in 1..Len(df.rows) |-> df.rows[i][name]]

\* df_feat before dropna: one row per row of df, on the same index
RollingFeatures(df, window) ==
    With([c \in ChannelSet |-> Column(df, c)],
         LAMBDA x :
             [i \in 1..Len(df.rows) |->
                 [feat |-> [f \in FeatureColumns |->
                               IF f[2] = "mean"
                               THEN RollingMean(x[f[1]], i, window)
                               ELSE RollingStd(x[f[1]], i, window)],
                  time |-> df.rows[i]["time"],
                  label |-> df.rows[i]["label"]]])

RowDefined(r) ==
    /\ \A f \in FeatureColumns : r.feat[f] # NaN
    /\ r.time # NaN
    /\ r.label # NaN

RowNotEmpty(r) ==
    \/ \E f \in FeatureColumns : r.feat[f] # NaN
    \/ r.time # NaN
    \/ r.label # NaN

\* DataFrame.dropna(how="all"): only the rows with no value at all go
DropNaAll(rows) == SelectSeq(rows, RowNotEmpty)

\* DataFrame.dropna().reset_index(drop=True)
DropNa(rows) == SelectSeq(rows, RowDefined)

\* the result, or the KeyError of df[col] on a column df does not have
feature_engineering(df, window) ==
    IF RunColumns \subseteq df.cols
    THEN [error |-> "none", rows |-> DropNa(RollingFeatures(df, window))]
    ELSE [error |-> "KeyError", rows |-> <<>>]

(***************************************************************************)
(* The data/ directory.  A file name <<stem, i>> stands for                *)
(* "<stem>_run_<i>.csv"; HealthFile is "health_index.csv".  names lists    *)
(* the files in the order they were created.                               *)
(***************************************************************************)
HealthFile == <<"health_index", 0>>

NoDisk == [exists |-> FALSE, names |-> <<>>, files |-> <<>>]

RunHeader ==
    <<"time", "Pc", "N_pump", "T_in", "Vib", "fuel_flow", "bearing_temp",
      "thrust", "label">>

HealthHeader == <<"time", "health_index", "label">>

InSeq(x, seq) == \E k \in 1..Len(seq) : seq[k] = x

\* write (create or overwrite) one file
WriteFile(d, name, csv) ==
    [exists |-> TRUE,
     names  |-> IF InSeq(name, d.names) THEN d.names ELSE Append(d.names, name),
     files  |-> [n \in (DOMAIN d.files) \cup {name} |->
                    IF n = name THEN csv ELSE d.files[n]]]

(***************************************************************************)
(* generate_telemetry.generate_and_save_runs                               *)
(***************************************************************************)
NormalRuns == 3
FaultRuns == 2

faults ==
    <<"pressure_decay", "turbopump_overspeed", "temp_rise",
      "vibration_increase", "fuel_leak", "bearing_overheat">>

\* the runs in the order the two loops write them: <<label, i>>
RunFileNames ==
    [k \in 1..NormalRuns |-> <<"normal", k - 1>>]
    \o [k \in 1..(Len(faults) * FaultRuns) |->
           <<faults[((k - 1) \div FaultRuns) + 1], (k - 1) % FaultRuns>>]

\* the k-th run written; every call draws on from the random stream
RunFrame(t, seed, k) ==
    LET label == RunFileNames[k][1]
    IN  Frame(RunColumns,
              IF label = "normal" THEN normal_behavior(t, seed + k)
              ELSE faulty_behavior(t, label, seed + k))

\* the files of the two loops, in the order they are written
RunCsvs(fs, run_duration, seed) ==
    With(generate_time_series(run_duration, fs),
         LAMBDA t :
             Evaluated([k \in 1..Len(RunFileNames) |->
                           ToCsv(RunFrame(t, seed, k), RunHeader)]))

RECURSIVE SaveRunsFrom(_, _, _)
\* df.to_csv of the k-th run and of those after it
SaveRunsFrom(d, csvs, k) ==
    IF k > Len(csvs) THEN d
    ELSE With(WriteFile(d, RunFileNames[k], csvs[k]),
              LAMBDA d1 : SaveRunsFrom(d1, csvs, k + 1))

\* os.makedirs(data_dir, exist_ok=True), then the two loops
SaveRuns(d, csvs) == SaveRunsFrom([d EXCEPT !.exists = TRUE], csvs, 1)

generate_and_save_runs(d, fs, run_duration, seed) ==
    SaveRuns(d, RunCsvs(fs, run_duration, seed))

(***************************************************************************)
(* preprocessing.load_data                                                 *)
(***************************************************************************)
load_data(d, filenames) ==
    With([k \in 1..Len(filenames) |-> ReadCsv(d.files[filenames[k]])],
         LAMBDA dfs : Concat(dfs))

(***************************************************************************)
(* train_health_index.main                                                 *)
(***************************************************************************)
Window == 10

\* Path.glob("*.csv"): the directory order is not specified; the orders
\* considered are the rotations of the creation order
Glob(d, rot) ==
    LET n == Len(d.names)
    IN  [i \in 1..n |-> d.names[((i - 1 + rot) % n) + 1]]

Labels(rows) == {Val(rows[i].label) : i \in 1..Len(rows)}

CountOf(rows, label) ==
    Cardinality({i \in 1..Len(rows) : Val(rows[i].label) = label})

\* sklearn: n_test = ceil(test_size * n_samples) with test_size = 0.2
TestSize(n) == FCeil(FMulInt(n, FDiv(FOne, FFromInt(5))))

\* train_test_split(X, y, stratify=y, test_size=0.2): whether it raises
SplitRaises(rows) ==
    LET n       == Len(rows)
        n_test  == TestSize(n)
        n_train == n - n_test
        classes == Labels(rows)
    IN  \/ n_train = 0
        \/ \E c \in classes : CountOf(rows, c) < 2
        \/ n_train < Cardinality(classes)
        \/ n_test < Cardinality(classes)

\* the health column beside time and label read from df_raw, which still
\* has the rows that dropna removed
HealthTableFromRaw(df_raw, df_feat) ==
    [i \in 1..Len(df_feat) |->
        [time |-> df_raw.rows[i]["time"],
         health_index |-> Some(<<"P_normal", i>>),
         label |-> df_raw.rows[i]["label"]]]

\* health_df: proba[:, normal_idx] beside df_feat's time and label; the
\* probability the forest gives row i is the opaque value <<"P_normal", i>>
HealthTable(df_raw, df_feat) ==
    [i \in 1..Len(df_feat) |->
        [time |-> df_feat[i].time,
         health_index |-> Some(<<"P_normal", i>>),
         label |-> df_feat[i].label]]

\* the record of one execution of main: the steps done so far, the exception
\* it ended with, and the values of its local variables
NoRun ==
    [trace |-> <<>>, error |-> "none", csv_files |-> <<>>, nrows |-> <<>>,
     df_raw |-> Frame({}, <<>>), df_feat |-> <<>>, classes |-> {},
     health_df |-> <<>>]

Raise(r, error) == [r EXCEPT !.trace = Append(@, "raise"), !.error = error]

Step(r, name) == [r EXCEPT !.trace = Append(@, name)]

\* health_df.to_csv(data/health_index.csv)
SaveHealth(d, health_df) ==
    WriteFile(d, HealthFile,
              ToCsv(Frame({"time", "health_index", "label"}, health_df),
                    HealthHeader))

(***************************************************************************)
(* Bounds of the model.                                                    *)
(***************************************************************************)
MaxFs == 49             \* SpecTime: sample rates 1 .. MaxFs Hz
MaxDuration == 2        \* SpecTime: run_duration 1 .. MaxDuration
MaxSeed == 1            \* states of the random stream 0 .. MaxSeed
MaxShort == 3           \* SpecFault: 1 Hz runs of 1 .. MaxShort seconds
MaxSamples == 12        \* SpecFeat: runs of 1 .. MaxSamples samples
MaxWindow == 11         \* SpecFeat: window 1 .. MaxWindow
MaxRunDuration == 3     \* Spec: run_duration 1 .. MaxRunDuration
MaxRot == 1             \* Spec: glob orders 0 .. MaxRot
MaxTrainings == 2       \* Spec: executions of main
MaxGenerations == 1     \* Spec: executions of generate_and_save_runs

DefaultDuration == 300

\* sampling periods of the slow axes of SpecFault: fs = 1 / period
SlowPeriods == {50, 75}

Idle == pc = "idle" /\ arg = <<>> /\ ret = <<>>

NoPipeline == disk = NoDisk /\ run = NoRun /\ nTrain = 0 /\ nGen = 0

(***************************************************************************)
(* SpecTime: generate_time_series(run_duration, fs)                        *)
(***************************************************************************)
InitTime ==
    /\ pc = "call"
    /\ arg \in {[run_duration |-> d, fs |-> FFromInt(k)] :
                    d \in 1..MaxDuration, k \in 1..MaxFs}
    /\ ret = <<>>
    /\ NoPipeline

GenerateTimeSeries ==
    /\ pc = "call"
    /\ ret' = generate_time_series(arg.run_duration, arg.fs)
    /\ pc' = "return"
    /\ UNCHANGED <<arg, disk, run, nTrain, nGen>>

NextTime == GenerateTimeSeries

SpecTime == InitTime /\ [][NextTime]_vars

(***************************************************************************)
(* SpecFault: faulty_behavior(t, fault_type), in its two steps             *)
(***************************************************************************)
FaultAxes ==
    {generate_time_series(d, FOne) : d \in 1..MaxShort}
    \cup {generate_time_series(DefaultDuration, FDiv(FOne, FFromInt(p))) :
              p \in SlowPeriods}

FaultInputs == FaultTypes \cup {"normal", "engine_fire"}

InitFault ==
    /\ pc = "call"
    /\ arg \in {[t |-> t, fault_type |-> f, seed |-> s] :
                    t \in FaultAxes, f \in FaultInputs, s \in 0..MaxSeed}
    /\ ret = <<>>
    /\ NoPipeline

\* df = normal_behavior(t)
FaultyNominal ==
    /\ pc = "call"
    /\ ret' = [nominal |-> normal_behavior(arg.t, arg.seed),
               df |-> normal_behavior(arg.t, arg.seed),
               error |-> "none"]
    /\ pc' = "nominal"
    /\ UNCHANGED <<arg, disk, run, nTrain, nGen>>

\* the fault branches, the label, return df
FaultyInject ==
    /\ pc = "nominal"
    /\ ret' = [ret EXCEPT
                  !.df = SetLabel(InjectFault(ret.df, arg.t, arg.fault_type,
                                              arg.seed),
                                  arg.fault_type)]
    /\ pc' = "return"
    /\ UNCHANGED <<arg, disk, run, nTrain, nGen>>

NextFault == FaultyNominal \/ FaultyInject

SpecFault == InitFault /\ [][NextFault]_vars

(***************************************************************************)
(* SpecFeat: feature_engineering(df, window) on one run                    *)
(***************************************************************************)
FeatAxes == {generate_time_series(n, FOne) : n \in 1..MaxSamples}

FeatRuns ==
    {Frame(RunColumns, faulty_behavior(t, f, s)) :
         t \in FeatAxes, f \in FaultTypes, s \in 0..MaxSeed}
    \cup {Frame(RunColumns, normal_behavior(t, s)) :
              t \in FeatAxes, s \in 0..MaxSeed}

InitFeat ==
    /\ pc = "call"
    /\ arg \in {[df |-> df, window |-> w] : df \in FeatRuns, w \in 1..MaxWindow}
    /\ ret = <<>>
    /\ NoPipeline

FeatureEngineering ==
    /\ pc = "call"
    /\ ret' = feature_engineering(arg.df, arg.window)
    /\ pc' = "return"
    /\ UNCHANGED <<arg, disk, run, nTrain, nGen>>

NextFeat == FeatureEngineering

SpecFeat == InitFeat /\ [][NextFeat]_vars

(***************************************************************************)
(* Spec: the data directory under generate_and_save_runs and main          *)
(***************************************************************************)
\* RunCsvs(1 Hz, run_duration, state of the stream) for every run_duration
\* and every execution of the generator, evaluated once: the g-th execution
\* finds the stream where the runs of the executions before it left it
GeneratedRuns ==
    Evaluated([run_duration \in 1..MaxRunDuration |->
        Evaluated([g \in 1..MaxGenerations |->
            RunCsvs(FOne, run_duration, (g - 1) * Len(RunFileNames))])])

\* a data/ directory holding fault runs only
FaultOnlyDir ==
    SaveRunsFrom([NoDisk EXCEPT !.exists = TRUE],
                 RunCsvs(FOne, MaxRunDuration, 0), NormalRuns + 1)

\* main reads whatever data/ holds: no directory yet, or one the user has
\* filled
Init ==
    /\ Idle
    /\ disk \in {NoDisk, FaultOnlyDir}
    /\ run = NoRun
    /\ nTrain = 0
    /\ nGen = 0

\* python generate_telemetry.py, that is generate_and_save_runs(disk, 1 Hz,
\* run_duration, state of the stream) with its files read from GeneratedRuns
GenerateAndSaveRuns(run_duration) ==
    /\ pc = "idle"
    /\ nGen < MaxGenerations
    /\ disk' = SaveRuns(disk, GeneratedRuns[run_duration][nGen + 1])
    /\ nGen' = nGen + 1
    /\ UNCHANGED <<pc, arg, ret, run, nTrain>>

\* main, lines 16-27: the directory, the glob, the empty check
MainGlob(rot) ==
    /\ pc = "idle"
    /\ nTrain < MaxTrainings
    /\ nTrain' = nTrain + 1
    /\ IF ~disk.exists
       THEN run' = Raise(NoRun, "FileNotFoundError") /\ pc' = "idle"
       ELSE IF Len(disk.names) = 0
       THEN run' = Raise(Step(NoRun, "glob"), "FileNotFoundError")
            /\ pc' = "idle"
       ELSE /\ run' = [Step(NoRun, "glob") EXCEPT
                          !.csv_files = Glob(disk, rot),
                          !.nrows = [k \in 1..Len(disk.names) |->
                              Len(disk.files[Glob(disk, rot)[k]].lines)]]
            /\ pc' = "load"
    /\ UNCHANGED <<arg, ret, disk, nGen>>

\* line 30: df_raw = load_data(csv_files)
MainLoadData ==
    /\ pc = "load"
    /\ run' = [Step(run, "load") EXCEPT
                  !.df_raw = load_data(disk, run.csv_files)]
    /\ pc' = "features"
    /\ UNCHANGED <<arg, ret, disk, nTrain, nGen>>

\* line 33: df_feat = feature_engineering(df_raw, window=10)
MainFeatures ==
    /\ pc = "features"
    /\ \E fe \in {feature_engineering(run.df_raw, Window)} :
           IF fe.error # "none"
           THEN run' = Raise(run, fe.error) /\ pc' = "idle"
           ELSE /\ run' = [Step(run, "features") EXCEPT !.df_feat = fe.rows]
                /\ pc' = "split"
    /\ UNCHANGED <<arg, ret, disk, nTrain, nGen>>

\* lines 35-42: X, y and train_test_split
MainSplit ==
    /\ pc = "split"
    /\ IF SplitRaises(run.df_feat)
       THEN run' = Raise(run, "ValueError") /\ pc' = "idle"
       ELSE run' = Step(run, "split") /\ pc' = "fit"
    /\ UNCHANGED <<arg, ret, disk, nTrain, nGen>>

\* lines 44-56: the forest is fitted, reported on and asked for proba;
\* clf.classes_ is the set of labels it was fitted on
MainFit ==
    /\ pc = "fit"
    /\ run' = [Step(Step(Step(run, "fit"), "report"), "predict_proba") EXCEPT
                  !.classes = Labels(run.df_feat)]
    /\ pc' = "classes"
    /\ UNCHANGED <<arg, ret, disk, nTrain, nGen>>

\* lines 57-71: the 'normal' check, then health_df
MainHealth ==
    /\ pc = "classes"
    /\ IF "normal" \notin run.classes
       THEN run' = Raise(run, "ValueError") /\ pc' = "idle"
       ELSE /\ run' = [Step(run, "health") EXCEPT
                          !.health_df = HealthTable(run.df_raw, run.df_feat)]
            /\ pc' = "save"
    /\ UNCHANGED <<arg, ret, disk, nTrain, nGen>>

\* lines 73-74: health_df.to_csv(out_path)
MainSave ==
    /\ pc = "save"
    /\ disk' = SaveHealth(disk, run.health_df)
    /\ run' = Step(run, "save")
    /\ pc' = "plot"
    /\ UNCHANGED <<arg, ret, nTrain, nGen>>

\* line 78: the plot; main returns
MainPlot ==
    /\ pc = "plot"
    /\ run' = Step(run, "plot")
    /\ pc' = "idle"
    /\ UNCHANGED <<arg, ret, disk, nTrain, nGen>>

Next ==
    \/ \E d \in 1..MaxRunDuration : GenerateAndSaveRuns(d)
    \/ \E rot \in 0..MaxRot : MainGlob(rot)
    \/ MainLoadData
    \/ MainFeatures
    \/ MainSplit
    \/ MainFit
    \/ MainHealth
    \/ MainSave
    \/ MainPlot

Spec == Init /\ [][Next]_vars

(***************************************************************************)
(* Properties of generate_time_series (SpecTime).                          *)
(***************************************************************************)
Returned == pc = "return"

\* C7: for all positive duration and sample rate fs, generate_time_series
\* returns exactly duration * fs timestamps, the first 0, strictly
\* increasing, spaced 1/fs apart (fs * t[i] is i to within a thousandth),
\* and every timestamp strictly less than duration.
C7_TimeAxisContract ==
    Returned =>
        LET fs == FRoundInt(arg.fs)
            n  == Len(ret)
        IN  /\ n = arg.run_duration * fs
            /\ n >= 1 /\ FIsZero(ret[1])
            /\ \A i \in 1..(n - 1) : FLess(ret[i], ret[i + 1])
            /\ \A i \in 1..n :
                   FRoundInt(FMulInt(1000 * fs, ret[i])) = 1000 * (i - 1)
            /\ \A i \in 1..n : FLess(ret[i], FFromInt(arg.run_duration))

(***************************************************************************)
(* Properties of faulty_behavior (SpecFault).                              *)
(***************************************************************************)
\* C2: for every fault_type that is not one of the six recognized tags,
\* faulty_behavior ends in a ConfigurationError and returns no run.
C2_UnknownFaultRejected ==
    (Returned /\ arg.fault_type \notin FaultTypes) =>
        ret.error = "ConfigurationError"

\* Pc of the faulty run minus Pc of the nominal run it was built from
PcDiff(i) == Val(ret.df[i].Pc) - Val(ret.nominal[i].Pc)

DecayReturned == Returned /\ arg.fault_type = "pressure_decay"

\* C8 as stated: at the last sample of a pressure_decay run, Pc is lower
\* than the nominal Pc by the decay magnitude of about 30 (within 10 %).
C8_DecayOfThirty ==
    DecayReturned =>
        /\ ret.df[Len(ret.df)].Pc # NaN
        /\ Abs(PcDiff(Len(ret.df)) + 3000) <= 300

\* C8 amended: on an axis with t_max > 0 the difference Pc_fault -
\* Pc_nominal is 0 at t = 0, -3.00 at t = t_max and -3.00 * t / t_max in
\* between (to the nearest hundredth); on an axis with t_max = 0 the faulty
\* Pc is undefined.
C8_DecayOfThree ==
    DecayReturned =>
        LET n    == Len(ret.df)
            tmax == Centi(arg.t[n])
        IN  IF tmax = 0
            THEN \A i \in 1..n : ret.df[i].Pc = NaN
            ELSE /\ PcDiff(1) = 0
                 /\ PcDiff(n) = -300
                 /\ \A i \in 1..n :
                        2 * Abs(PcDiff(i) * tmax + 300 * Centi(arg.t[i])) <= tmax

\* a pressure_decay run with a sample strictly between 0 and t_max
C8_Witness ==
    /\ DecayReturned
    /\ Len(ret.df) >= 3
    /\ PcDiff(2) < 0 /\ PcDiff(2) > PcDiff(Len(ret.df))

\* the channels the claim lists for each fault type
ListedChannels(fault_type) ==
    CASE fault_type = "pressure_decay"      -> {"Pc"}
      [] fault_type = "turbopump_overspeed" -> {"N_pump"}
      [] fault_type = "temp_rise"           -> {"T_in"}
      [] fault_type = "vibration_increase"  -> {"Vib"}
      [] fault_type = "fuel_leak"           -> {"fuel_flow", "Pc", "thrust"}
      [] fault_type = "bearing_overheat"    -> {"bearing_temp", "Vib"}

\* C9: each of the six fault types changes only its listed channels: time
\* and every other channel equal the nominal baseline at every sample, and
\* for turbopump_overspeed N_pump is also unchanged where t <= 150.
C9_FaultFrame ==
    (Returned /\ arg.fault_type \in FaultTypes) =>
        /\ Len(ret.df) = Len(ret.nominal)
        /\ \A i \in 1..Len(ret.df) :
               \A c \in (ChannelSet \cup {"time"})
                            \ ListedChannels(arg.fault_type) :
                   ret.df[i][c] = ret.nominal[i][c]
        /\ arg.fault_type = "turbopump_overspeed" =>
               \A i \in 1..Len(ret.df) :
                   ~FLess(FFromInt(150), arg.t[i]) =>
                       ret.df[i].N_pump = ret.nominal[i].N_pump

\* a turbopump_overspeed run with samples on both sides of t = 150, the
\* later one with a raised N_pump
C9_Witness ==
    /\ Returned
    /\ arg.fault_type = "turbopump_overspeed"
    /\ \E i, j \in 1..Len(ret.df) :
           /\ ~FLess(FFromInt(150), arg.t[i])
           /\ FLess(FFromInt(150), arg.t[j])
           /\ Val(ret.df[j].N_pump) > Val(ret.nominal[j].N_pump)

(***************************************************************************)
(* Properties of feature_engineering on one run (SpecFeat).                *)
(***************************************************************************)
AllChannelsDefined(df) ==
    \A i \in 1..Len(df.rows) : \A c \in ChannelSet : df.rows[i][c] # NaN

SingleRunCase ==
    /\ Returned
    /\ AllChannelsDefined(arg.df)
    /\ 2 <= arg.window
    /\ arg.window <= Len(arg.df.rows)

\* C5: for a single run of n samples with all channel values defined and a
\* window W with 2 <= W <= n, feature_engineering returns exactly n - W + 1
\* rows, row j being the raw row of index W - 1 + (j - 1) counted from 0
\* (its time, its label, the means of the window ending there), and no
\* row has an undefined value in any of the 14 rolling features.
C5_SingleRunRows ==
    SingleRunCase =>
        LET n == Len(arg.df.rows)
            W == arg.window
        IN  /\ ret.error = "none"
            /\ Len(ret.rows) = n - W + 1
            /\ \A j \in 1..Len(ret.rows) :
                   /\ ret.rows[j].time = arg.df.rows[j + W - 1]["time"]
                   /\ ret.rows[j].label = arg.df.rows[j + W - 1]["label"]
                   /\ \A f \in FeatureColumns : ret.rows[j].feat[f] # NaN
                   /\ \A c \in ChannelSet :
                          ret.rows[j].feat[<<c, "mean">>] =
                              Some(RoundDiv(SumOver(Column(arg.df, c), j,
                                                    j + W - 1), W))

\* a run longer than the window of 10 that main uses: rows are dropped and
\* several are kept
C5_Witness ==
    /\ SingleRunCase
    /\ arg.window = Window
    /\ arg.window < Len(arg.df.rows)
    /\ Len(ret.rows) >= 2
    /\ Len(ret.rows) < Len(arg.df.rows)

(***************************************************************************)
(* Properties of main on the data directory (Spec).                        *)
(***************************************************************************)
Did(step) == InSeq(step, run.trace)

RECURSIVE RowsBefore(_)
\* the number of rows of df_raw that come from csv_files[1 .. k - 1]
RowsBefore(k) == IF k = 1 THEN 0 ELSE RowsBefore(k - 1) + run.nrows[k - 1]

\* the position in csv_files of the file that row i of df_raw was read from
FileOfRow(i) ==
    CHOOSE k \in 1..Len(run.csv_files) :
        RowsBefore(k) < i /\ i <= RowsBefore(k) + run.nrows[k]

\* row i of df_raw ends a window of Window rows whose channels are all
\* defined, and has a time and a label
WindowBacked(i) ==
    /\ i >= Window
    /\ \A j \in (i - Window + 1)..i :
           \A c \in ChannelSet :
               c \in run.df_raw.cols /\ run.df_raw.rows[j][c] # NaN
    /\ run.df_raw.rows[i]["time"] # NaN
    /\ run.df_raw.rows[i]["label"] # NaN

\* the indices of the rows of df_raw that end a fully populated window, in
\* order: the raw sample of feature row j is KeptRaw[j]
KeptRaw == SelectSeq([i \in 1..Len(run.df_raw.rows) |-> i], WindowBacked)

\* C1: feature extraction over several concatenated runs never mixes runs:
\* the Window raw samples behind every feature row come from one file.
C1_NoWindowAcrossRuns ==
    Did("features") =>
        \A kept \in {KeptRaw} :
            \A j \in 1..Len(run.df_feat) :
                FileOfRow(kept[j] - Window + 1) = FileOfRow(kept[j])

\* the labels of the rows of the corpus main has loaded
CorpusLabels ==
    {Val(run.df_raw.rows[i]["label"]) :
         i \in {k \in 1..Len(run.df_raw.rows) :
                    run.df_raw.rows[k]["label"] # NaN}}

\* C3: on a corpus with no row labelled "normal", main raises before the
\* classifier is fitted, reported on or asked for probabilities.
C3_ErrorBeforeFit ==
    (Did("load") /\ "normal" \notin CorpusLabels) =>
        /\ ~Did("fit") /\ ~Did("report") /\ ~Did("predict_proba")
        /\ pc = "idle" => run.error = "ConfigurationError"

\* the columns of the k-th file main has loaded
ColumnsOfFile(k) ==
    LET header == disk.files[run.csv_files[k]].header
    IN  {header[c] : c \in 1..Len(header)}

LoadedFileLacksChannel ==
    \E k \in 1..Len(run.csv_files) : ~(ChannelSet \subseteq ColumnsOfFile(k))

\* C4: when a loaded file lacks one of the seven channel columns, main ends
\* in a DataShapeError and makes no feature table and no health table.
C4_MissingColumnRejected ==
    (Did("load") /\ LoadedFileLacksChannel) =>
        /\ ~Did("features") /\ ~Did("health")
        /\ pc = "idle" => run.error = "DataShapeError"

\* C6: the health table has one row per feature row, in the same order,
\* and row j carries the time and the label of the raw sample at which the
\* window of feature row j ends.
C6_HealthRowsAligned ==
    Did("health") =>
        \A kept \in {KeptRaw} :
            /\ Len(run.health_df) = Len(run.df_feat)
            /\ Len(run.df_feat) = Len(kept)
            /\ \A j \in 1..Len(run.health_df) :
                   /\ run.health_df[j].time = run.df_raw.rows[kept[j]]["time"]
                   /\ run.health_df[j].label =
                          run.df_raw.rows[kept[j]]["label"]
                   /\ run.health_df[j].health_index = Some(<<"P_normal", j>>)

\* main has made a health table of several rows from a corpus whose first
\* rows were dropped
C6_Witness ==
    /\ Did("health")
    /\ Len(run.health_df) >= 2
    /\ KeptRaw[1] > 1

\* C10: main never loads its own output health_index.csv as a run: every
\* file it loads has the columns the generator writes.
C10_OnlyRunFilesLoaded ==
    \A k \in 1..Len(run.csv_files) :
        /\ run.csv_files[k] # HealthFile
        /\ ColumnsOfFile(k) = RunColumns

=============================================================================
